---- MODULE Spec2Model ----
(***************************************************************************)
(* Model of the inspection core: the mock Detector (inspection/vision.py)  *)
(* and the rule-based Reasoner (inspection/reasoning.py).                  *)
(*                                                                         *)
(* Numbers.  Confidences are kept in hundredths (0.75 is 75), the random   *)
(* generator's random() is the fraction k / RngMod, and every comparison   *)
(* of a ratio with a decimal threshold is done by cross-multiplication,    *)
(* so no rounding error is introduced by the model.                        *)
(*                                                                         *)
(* Text.  A formatted message is the sequence of its pieces, for example   *)
(* <<label, ": Immediate action - follow SOP: ", sop>>; the absent value   *)
(* None formats as the piece "None".                                       *)
(***************************************************************************)
EXTENDS Integers, Sequences, FiniteSets, TLC

VARIABLES
    pc,           \* Reasoner: "input" before analyze() runs, "done" after
    detections,   \* Reasoner: the observation sequence passed to analyze()
    image_size,   \* Reasoner: the image_size argument <<img_w, img_h>>
    analysis,     \* Reasoner: the dictionary analyze() returned
    finding_sev,  \* Reasoner: the value of sev in each loop iteration
    dpc,          \* Detector: "idle" or "returned"
    image,        \* Detector: the image of the latest detect() call
    rng,          \* Detector: state of the generator used by the latest call
    result,       \* Detector: the list the latest detect() call returned
    first,        \* Detector: <<image and result of the first completed call>>
    interleaved   \* Detector: a call on another image followed the first call

vars == <<pc, detections, image_size, analysis, finding_sev,
          dpc, image, rng, result, first, interleaved>>

reasonerVars == <<pc, detections, image_size, analysis, finding_sev>>
detectorVars == <<dpc, image, rng, result, first, interleaved>>

----------------------------------------------------------------------------
(* Bounds of the model *)

MaxObs == 2

(* Input domains of the Reasoner *)

KnownLabels == {"crack", "corrosion", "leak"}
Labels == KnownLabels \cup {"dent", "total"}
Confidences == {70, 75}
Boxes == { <<30, 1>>, <<5, 1>>, <<20, 10>>, <<20, 15>>, <<30, 30>> }
ImageSizes == { <<100, 100>>, <<0, 0>> }

Observations ==
    { [label |-> l, confidence |-> c, bbox |-> <<0, 0, b[1], b[2]>>] :
        l \in Labels, c \in Confidences, b \in Boxes }

RECURSIVE SeqsUpTo(_, _)
SeqsUpTo(S, n) ==
    IF n = 0 THEN { <<>> }
    ELSE LET shorter == SeqsUpTo(S, n - 1)
         IN  shorter \cup { Append(s, x) : s \in { t \in shorter : Len(t) = n - 1 }, x \in S }

----------------------------------------------------------------------------
(* Helpers for Python values *)

Max2(a, b) == IF a > b THEN a ELSE b

EmptyDict == [k \in {} |-> 0]

\* dict.get(key, default)
DictGet(d, k, default) == IF k \in DOMAIN d THEN d[k] ELSE default

\* {**a, **b}
DictMerge(a, b) ==
    [k \in (DOMAIN a) \cup (DOMAIN b) |-> IF k \in DOMAIN b THEN b[k] ELSE a[k]]

\* d[k] = v
DictSet(d, k, v) ==
    [x \in (DOMAIN d) \cup {k} |-> IF x = k THEN v ELSE d[x]]

----------------------------------------------------------------------------
(* Reasoner *)

SOP_DB ==
    [ crack |->
        [ iso |-> "ISO 6508",
          sop |-> "Inspect crack length; measure propagation; schedule NDT (ultrasonic).",
          priority |-> "P2" ],
      corrosion |->
        [ iso |-> "ISO 9227",
          sop |-> "Assess corrosion depth/area; clean and apply corrosion inhibitor; consider replacement.",
          priority |-> "P2" ],
      leak |->
        [ iso |-> "ISO 5167",
          sop |-> "Isolate line; perform pressure test; immediate repair if active leak.",
          priority |-> "P1" ] ]

order == [low |-> 0, medium |-> 1, high |-> 2]

\* num / den > p / 100
RatioAbove(num, den, p) == num * 100 > p * den

EstimateSeverity_unknownMedium(detection, size) ==
    LET lbl == detection.label
        w == detection.bbox[3]
        h == detection.bbox[4]
        img_w == size[1]
        img_h == size[2]
        area_num == w * h
        area_den == Max2(1, img_w * img_h)
        len_num == Max2(w, h)
        len_den == Max2(1, Max2(img_w, img_h))
    IN  IF lbl = "leak" THEN
            IF detection.confidence > 70 THEN "high" ELSE "medium"
        ELSE IF lbl = "crack" THEN
            IF RatioAbove(len_num, len_den, 25) \/ RatioAbove(area_num, area_den, 2)
            THEN "high"
            ELSE IF RatioAbove(len_num, len_den, 8) THEN "medium" ELSE "low"
        ELSE IF lbl = "corrosion" THEN
            IF RatioAbove(area_num, area_den, 6) THEN "high"
            ELSE IF RatioAbove(area_num, area_den, 2) THEN "medium" ELSE "low"
        ELSE "medium"

EstimateSeverity_corrosionSwapped(detection, size) ==
    LET lbl == detection.label
        w == detection.bbox[3]
        h == detection.bbox[4]
        img_w == size[1]
        img_h == size[2]
        area_num == w * h
        area_den == Max2(1, img_w * img_h)
        len_num == Max2(w, h)
        len_den == Max2(1, Max2(img_w, img_h))
    IN  IF lbl = "leak" THEN
            IF detection.confidence > 70 THEN "high" ELSE "medium"
        ELSE IF lbl = "crack" THEN
            IF RatioAbove(len_num, len_den, 25) \/ RatioAbove(area_num, area_den, 2)
            THEN "high"
            ELSE IF RatioAbove(len_num, len_den, 8) THEN "medium" ELSE "low"
        ELSE IF lbl = "corrosion" THEN
            IF RatioAbove(area_num, area_den, 6) THEN "medium"
            ELSE IF RatioAbove(area_num, area_den, 2) THEN "high" ELSE "low"
        ELSE "low"

EstimateSeverity(detection, size) ==
    LET lbl == detection.label
        w == detection.bbox[3]
        h == detection.bbox[4]
        img_w == size[1]
        img_h == size[2]
        area_num == w * h
        area_den == Max2(1, img_w * img_h)
        len_num == Max2(w, h)
        len_den == Max2(1, Max2(img_w, img_h))
    IN  IF lbl = "leak" THEN
            IF detection.confidence > 70 THEN "high" ELSE "medium"
        ELSE IF lbl = "crack" THEN
            IF RatioAbove(len_num, len_den, 25) \/ RatioAbove(area_num, area_den, 2)
            THEN "high"
            ELSE IF RatioAbove(len_num, len_den, 8) THEN "medium" ELSE "low"
        ELSE IF lbl = "corrosion" THEN
            IF RatioAbove(area_num, area_den, 6) THEN "high"
            ELSE IF RatioAbove(area_num, area_den, 2) THEN "medium" ELSE "low"
        ELSE "low"

CaveatMsg == << "Confidence is moderate - capture higher-resolution image for verification." >>
ShutdownMsg == << "Schedule shutdown and NDT / specialist inspection within 24 hours." >>
MonitorMsg == << "Monitor weekly and re-inspect with higher-fidelity sensors." >>

RecommendationsFor_caveatAlways(label, severity, detection) ==
    LET base == DictGet(SOP_DB, label, EmptyDict)
        sop == DictGet(base, "sop", "None")
        recs ==
            IF severity = "high" THEN
                << <<label, ": Immediate action - follow SOP: ", sop>>, ShutdownMsg >>
            ELSE IF severity = "medium" THEN
                << <<label, ": Repair or patch and inspect; follow SOP: ", sop>>, MonitorMsg >>
            ELSE
                << <<label, ": Document and schedule maintenance per SOP: ", sop>> >>
    IN  Append(recs, CaveatMsg)

RecommendationsFor(label, severity, detection) ==
    LET base == DictGet(SOP_DB, label, EmptyDict)
        sop == DictGet(base, "sop", "None")
        recs ==
            IF severity = "high" THEN
                << <<label, ": Immediate action - follow SOP: ", sop>>, ShutdownMsg >>
            ELSE IF severity = "medium" THEN
                << <<label, ": Repair or patch and inspect; follow SOP: ", sop>>, MonitorMsg >>
            ELSE
                << <<label, ": Document and schedule maintenance per SOP: ", sop>> >>
    IN  IF DictGet(detection, "confidence", 0) < 75
        THEN Append(recs, CaveatMsg)
        ELSE recs

RECURSIVE AggregateFrom(_, _, _, _)
AggregateFrom(dets, size, i, worst) ==
    IF i > Len(dets) THEN worst
    ELSE LET s == EstimateSeverity(dets[i], size)
         IN  AggregateFrom(dets, size, i + 1,
                           IF order[s] > order[worst] THEN s ELSE worst)

RECURSIVE AggregateLast(_, _, _, _)
AggregateLast(dets, size, i, worst) ==
    IF i > Len(dets) THEN worst
    ELSE AggregateLast(dets, size, i + 1, EstimateSeverity(dets[i], size))

AggregateSeverity_last(dets, size) == AggregateLast(dets, size, 1, "low")

AggregateSeverity(dets, size) == AggregateFrom(dets, size, 1, "low")

SopMapping_wrongDefault(lbl) ==
    LET meta == DictGet(SOP_DB, lbl, EmptyDict)
    IN  [ label |-> lbl,
          iso |-> DictGet(meta, "iso", "N/A"),
          sop |-> DictGet(meta, "sop", "Refer engineering SOP."),
          priority |-> DictGet(meta, "priority", "P1") ]

SopMapping(lbl) ==
    LET meta == DictGet(SOP_DB, lbl, EmptyDict)
    IN  [ label |-> lbl,
          iso |-> DictGet(meta, "iso", "N/A"),
          sop |-> DictGet(meta, "sop", "Refer engineering SOP."),
          priority |-> DictGet(meta, "priority", "P3") ]

\* The body of the for loop of analyze(), from detection i on; st carries the
\* locals counts, sop_mappings, recs (and the successive values of sev).
RECURSIVE AnalyzeLoop(_, _, _, _)
AnalyzeLoop(dets, size, i, st) ==
    IF i > Len(dets) THEN st
    ELSE LET d == dets[i]
             lbl == d.label
             sev == EstimateSeverity(d, size)
         IN  AnalyzeLoop(dets, size, i + 1,
                [ counts |-> DictSet(st.counts, lbl, DictGet(st.counts, lbl, 0) + 1),
                  sop_mappings |-> Append(st.sop_mappings, SopMapping(lbl)),
                  recs |-> st.recs \o RecommendationsFor(lbl, sev, d),
                  sevs |-> Append(st.sevs, sev) ])

AnalyzeLocals(dets, size) ==
    AnalyzeLoop(dets, size, 1,
        [ counts |-> EmptyDict, sop_mappings |-> <<>>, recs |-> <<>>, sevs |-> <<>> ])

analyze(dets, size) ==
    LET summary == [total |-> Len(dets)]
        st == AnalyzeLocals(dets, size)
        overall == AggregateSeverity(dets, size)
    IN  [ summary |-> DictMerge(summary, st.counts),
          severity |-> overall,
          sop_mappings |-> st.sop_mappings,
          recommendations |-> st.recs ]

NoAnalysis == [ summary |-> EmptyDict, severity |-> "none",
                sop_mappings |-> <<>>, recommendations |-> <<>> ]

Analyze ==
    /\ pc = "input"
    /\ analysis' = analyze(detections, image_size)
    /\ finding_sev' = AnalyzeLocals(detections, image_size).sevs
    /\ pc' = "done"
    /\ UNCHANGED <<detections, image_size>>
    /\ UNCHANGED detectorVars

DetectorIdle ==
    /\ dpc = "idle"
    /\ image = [w |-> 0, h |-> 0, px |-> 0]
    /\ rng = 0
    /\ result = <<>>
    /\ first = <<>>
    /\ interleaved = FALSE

Init ==
    /\ pc = "input"
    /\ detections \in SeqsUpTo(Observations, MaxObs)
    /\ image_size \in ImageSizes
    /\ analysis = NoAnalysis
    /\ finding_sev = <<>>
    /\ DetectorIdle

Next == Analyze

Spec == Init /\ [][Next]_vars

----------------------------------------------------------------------------
(* Detector *)

SUPPORTED == <<"crack", "corrosion", "leak">>

\* Resolution of the generator: random() takes the values k / RngMod, k < RngMod
RngMod == 16
\* Distinct non-empty pixel contents, and the image dimensions considered
MaxContent == 16
MaxDim == 20
Dims == {0, 7, MaxDim}

\* An image is its size and the content of tobytes()[:1024]; px names that
\* content, and an image without pixels has the empty content 0.
Images ==
    { img \in [w : Dims, h : Dims, px : 0..MaxContent] :
        (img.px = 0) <=> (img.w * img.h = 0) }

\* int(sha1(buf).hexdigest()[:8], 16): a fixed function of the content
Sha1Seed(buf) == (buf * 40503 + 12345) % 65536

NewRandom_shared(seed) == rng

\* random.Random(seed): a fresh generator whose state is a function of seed
NewRandom(seed) == seed % RngMod

\* One step of the generator; the new state k is also the draw random() = k / RngMod
RngNext(s) == (5 * s + 3) % RngMod

\* rng.choices([0, 1, 2, 3], weights=[20, 50, 20, 10])[0] for random() = k / RngMod
Choices(k) ==
    IF k * 100 < 20 * RngMod THEN 0
    ELSE IF k * 100 < 70 * RngMod THEN 1
    ELSE IF k * 100 < 90 * RngMod THEN 2
    ELSE 3

\* rng.choice(SUPPORTED)
Choice(k) == SUPPORTED[((k * Len(SUPPORTED)) \div RngMod) + 1]

\* round(num / den) to the nearest integer, ties to even
RoundHalfEven(num, den) ==
    LET q == num \div den
        r == num % den
    IN  IF 2 * r < den THEN q
        ELSE IF 2 * r > den THEN q + 1
        ELSE IF q % 2 = 0 THEN q ELSE q + 1

\* round(rng.uniform(0.6, 0.98), 2), in hundredths
Confidence(k) == RoundHalfEven(60 * RngMod + 38 * k, RngMod)

\* int(dim * rng.uniform(lo / 100, hi / 100))
BoxSize(dim, lo, hi, k) == (dim * (lo * RngMod + (hi - lo) * k)) \div (100 * RngMod)

CornerRange_ignoresBox(dim, box) == Max2(1, dim)

\* max(1, dim - box)
CornerRange(dim, box) == Max2(1, dim - box)

\* int(rng.uniform(0, max(1, dim - box)))
Corner(dim, box, k) == (CornerRange(dim, box) * k) \div RngMod

\* The for loop of _mock_detect: s is the generator state, dets the list so far
RECURSIVE MockLoop(_, _, _, _, _)
MockLoop(img, i, n, s, dets) ==
    IF i >= n THEN [detections |-> dets, rng |-> s]
    ELSE LET k1 == RngNext(s)
             k2 == RngNext(k1)
             k3 == RngNext(k2)
             k4 == RngNext(k3)
             k5 == RngNext(k4)
             k6 == RngNext(k5)
             label == Choice(k1)
             confidence == Confidence(k2)
             bw == IF label = "crack" THEN BoxSize(img.w, 8, 40, k3)
                   ELSE IF label = "corrosion" THEN BoxSize(img.w, 5, 25, k3)
                   ELSE BoxSize(img.w, 5, 18, k3)
             bh == IF label = "crack" THEN BoxSize(img.h, 1, 5, k4)
                   ELSE IF label = "corrosion" THEN BoxSize(img.h, 5, 25, k4)
                   ELSE BoxSize(img.h, 5, 12, k4)
             x == Corner(img.w, bw, k5)
             y == Corner(img.h, bh, k6)
         IN  MockLoop(img, i + 1, n, k6,
                Append(dets, [label |-> label, confidence |-> confidence,
                              bbox |-> <<x, y, bw, bh>>]))

MockDetect(img) ==
    LET seed == Sha1Seed(img.px)
        s0 == NewRandom(seed)
        k0 == RngNext(s0)
        n == Choices(k0)
    IN  MockLoop(img, 0, n, k0, <<>>)

\* detect(pil_image) on the instance built with use_mock=True
Detect(img) ==
    LET out == MockDetect(img)
    IN  /\ image' = img
        /\ result' = out.detections
        /\ rng' = out.rng
        /\ dpc' = "returned"
        /\ first' = IF first = <<>>
                    THEN << [image |-> img, result |-> out.detections] >>
                    ELSE first
        /\ interleaved' = (interleaved \/ (first # <<>> /\ first[1].image # img))
        /\ UNCHANGED reasonerVars

DetectorInit ==
    /\ pc = "input"
    /\ detections = <<>>
    /\ image_size = <<0, 0>>
    /\ analysis = NoAnalysis
    /\ finding_sev = <<>>
    /\ DetectorIdle

DetectorNext == \E img \in Images : Detect(img)

DetectorSpec == DetectorInit /\ [][DetectorNext]_vars

----------------------------------------------------------------------------
(* C1: detect is deterministic: a call on an image returns the same
   observation sequence as the first call on that image did, whatever calls
   were made in between. *)
C1_DetectDeterministic ==
    (dpc = "returned" /\ first # <<>> /\ first[1].image = image)
        => result = first[1].result

C1_Witness ==
    /\ dpc = "returned"
    /\ first # <<>>
    /\ first[1].image = image
    /\ interleaved
    /\ Len(result) = 3

(* C3: detect signals InvalidInputError for an image of zero width or zero
   height and returns no observation sequence for it. *)
C3_RejectsZeroArea ==
    (dpc # "idle" /\ (image.w = 0 \/ image.h = 0)) => dpc = "raised"

(* C4: every generated bounding box [x, y, width, height] has 0 <= x, 0 <= y,
   width >= 0, height >= 0, x + width <= image_width, y + height <= image_height. *)
C4_BoxInsideImage ==
    dpc = "returned" =>
        \A i \in 1..Len(result) :
            LET b == result[i].bbox
            IN  /\ 0 <= b[1]
                /\ 0 <= b[2]
                /\ b[3] >= 0
                /\ b[4] >= 0
                /\ b[1] + b[3] <= image.w
                /\ b[2] + b[4] <= image.h

C4_Witness ==
    /\ dpc = "returned"
    /\ \E i \in 1..Len(result) :
          LET b == result[i].bbox
          IN  /\ b[3] > 0
              /\ b[4] > 0
              /\ b[1] + b[3] = image.w - 1

----------------------------------------------------------------------------
(* Vocabulary of the Reasoner's properties *)

NumObs == Len(detections)
Recs == analysis.recommendations

BoxArea(d) == d.bbox[3] * d.bbox[4]
BoxLength(d) == Max2(d.bbox[3], d.bbox[4])

MaxOf(S) == CHOOSE m \in S : \A x \in S : x <= m

RemoveAt(s, i) == [j \in 1..(Len(s) - 1) |-> IF j < i THEN s[j] ELSE s[j + 1]]

\* The Reference Entry of a label: its row of the table, or the documented default.
ReferenceEntry(l) ==
    IF l \in KnownLabels THEN SOP_DB[l]
    ELSE [iso |-> "N/A", sop |-> "Refer engineering SOP.", priority |-> "P3"]

\* A message that opens an observation's block is the only one made of three
\* pieces (label, template, procedure); the fixed messages have one piece.
Heads == { p \in 1..Len(Recs) : Len(Recs[p]) = 3 }
HeadPos(i) == CHOOSE p \in Heads : Cardinality({ q \in Heads : q <= p }) = i
BlockEnd(i) == IF i = Cardinality(Heads) THEN Len(Recs) ELSE HeadPos(i + 1) - 1
BlockLen(i) == BlockEnd(i) - HeadPos(i) + 1

\* recommendations is cut into one block per observation, in observation order
BlocksFollowObservations ==
    /\ Cardinality(Heads) = NumObs
    /\ (Len(Recs) > 0 => 1 \in Heads)
    /\ \A i \in 1..NumObs : Recs[HeadPos(i)][1] = detections[i].label

RecsWithoutBlock(i) ==
    LET a == HeadPos(i)
        b == BlockEnd(i)
    IN  [j \in 1..(Len(Recs) - (b - a + 1)) |-> IF j < a THEN Recs[j] ELSE Recs[j + (b - a + 1)]]

----------------------------------------------------------------------------
(* C2: the overall severity returned by analyze is the maximum, under
   low < medium < high, of the per-finding severities; it is low for the
   empty sequence and high whenever some finding is high. *)
C2_OverallIsMaximum ==
    pc = "done" =>
        /\ Len(finding_sev) = NumObs
        /\ order[analysis.severity] =
               MaxOf({0} \cup { order[finding_sev[i]] : i \in 1..NumObs })
        /\ (NumObs = 0 => analysis.severity = "low")
        /\ ((\E i \in 1..NumObs : finding_sev[i] = "high") => analysis.severity = "high")

C2_Witness ==
    /\ pc = "done"
    /\ NumObs = 2
    /\ finding_sev = <<"medium", "low">>
    /\ analysis.severity = "medium"

(* C5 as stated: for two observations of the same label, crack or corrosion,
   on the same image, a smaller area_ratio never has a greater severity. *)
C5_MonotoneInAreaAlone ==
    pc = "done" =>
        \A i, j \in 1..NumObs :
            ( /\ detections[i].label = detections[j].label
              /\ detections[i].label \in {"crack", "corrosion"}
              /\ BoxArea(detections[i]) < BoxArea(detections[j]) )
            => order[finding_sev[i]] <= order[finding_sev[j]]

(* C5 amended: severity is monotone in area_ratio for corrosion, and for crack
   when the first observation's length_ratio is not greater than the second's. *)
C5_MonotoneInAreaAndLength ==
    pc = "done" =>
        \A i, j \in 1..NumObs :
            ( /\ detections[i].label = detections[j].label
              /\ detections[i].label \in {"crack", "corrosion"}
              /\ BoxArea(detections[i]) < BoxArea(detections[j])
              /\ (detections[i].label = "crack"
                    => BoxLength(detections[i]) <= BoxLength(detections[j])) )
            => order[finding_sev[i]] <= order[finding_sev[j]]

C5_Witness ==
    /\ pc = "done"
    /\ NumObs = 2
    /\ image_size = <<100, 100>>
    /\ detections[1].label = "corrosion"
    /\ detections[2].label = "corrosion"
    /\ BoxArea(detections[1]) < BoxArea(detections[2])
    /\ finding_sev = <<"medium", "high">>

(* C6: summary.total is the number of observations and, for every label
   present, summary holds the number of observations carrying that label,
   whatever the label string. *)
C6_SummaryCounts ==
    pc = "done" =>
        /\ analysis.summary["total"] = NumObs
        /\ \A i \in 1..NumObs :
              LET l == detections[i].label
              IN  /\ l \in DOMAIN analysis.summary
                  /\ analysis.summary[l] =
                        Cardinality({ j \in 1..NumObs : detections[j].label = l })

(* C7 as stated: recommendations is the concatenation, in observation order,
   of one block per observation, every block has two or three entries, so k
   observations give between 2k and 3k entries. *)
C7_TwoOrThreePerObservation ==
    pc = "done" =>
        /\ BlocksFollowObservations
        /\ \A i \in 1..NumObs : BlockLen(i) \in {2, 3}
        /\ 2 * NumObs <= Len(Recs)
        /\ Len(Recs) <= 3 * NumObs

(* C7 amended: one block per observation in observation order; a block has one
   entry for a low finding and two for a medium or high one, plus the caveat
   exactly when the confidence is below 0.75: one to three entries per
   observation, between k and 3k in all. *)
C7_OneToThreePerObservation ==
    pc = "done" =>
        /\ BlocksFollowObservations
        /\ \A i \in 1..NumObs :
              BlockLen(i) = (IF finding_sev[i] = "low" THEN 1 ELSE 2)
                          + (IF detections[i].confidence < 75 THEN 1 ELSE 0)
        /\ NumObs <= Len(Recs)
        /\ Len(Recs) <= 3 * NumObs

C7_Witness ==
    /\ pc = "done"
    /\ NumObs = 2
    /\ finding_sev = <<"low", "high">>
    /\ detections[1].confidence = 75
    /\ detections[2].confidence = 70
    /\ Len(Recs) = 4

(* C8: sop_mappings has one entry per observation, and the i-th entry carries
   the i-th observation's label with the Reference Entry of that label. *)
C8_MappingCompleteness ==
    pc = "done" =>
        /\ Len(analysis.sop_mappings) = NumObs
        /\ \A i \in 1..NumObs :
              LET l == detections[i].label
                  e == ReferenceEntry(l)
              IN  analysis.sop_mappings[i] =
                     [label |-> l, iso |-> e.iso, sop |-> e.sop, priority |-> e.priority]

C8_Witness ==
    /\ pc = "done"
    /\ NumObs = 2
    /\ detections[1].label = "dent"
    /\ detections[2].label = "leak"
    /\ analysis.sop_mappings[1].priority = "P3"
    /\ analysis.sop_mappings[2].iso = "ISO 5167"

(* C9: an observation with a label outside the reference table does not make
   analyze fail; its severity is low whatever its confidence and box, its
   sop_mappings entry is the default (N/A, generic procedure, P3), and the
   results for the other observations are those of the sequence without it. *)
C9_UnknownLabelTotal ==
    pc = "done" =>
        \A i \in 1..NumObs :
            detections[i].label \notin DOMAIN SOP_DB =>
                LET without == analyze(RemoveAt(detections, i), image_size)
                IN  /\ finding_sev[i] = "low"
                    /\ analysis.sop_mappings[i].iso = "N/A"
                    /\ analysis.sop_mappings[i].sop = "Refer engineering SOP."
                    /\ analysis.sop_mappings[i].priority = "P3"
                    /\ RemoveAt(analysis.sop_mappings, i) = without.sop_mappings
                    /\ RemoveAt(finding_sev, i) =
                          AnalyzeLocals(RemoveAt(detections, i), image_size).sevs
                    /\ RecsWithoutBlock(i) = without.recommendations
                    /\ analysis.severity = without.severity

C9_Witness ==
    /\ pc = "done"
    /\ NumObs = 2
    /\ image_size = <<0, 0>>
    /\ detections[1].label = "dent"
    /\ detections[1].bbox = <<0, 0, 30, 30>>
    /\ detections[2].label = "crack"
    /\ finding_sev = <<"low", "high">>
    /\ analysis.sop_mappings[1].iso = "N/A"

(* C10: the procedure text embedded in the first recommendation emitted for an
   observation is the procedure text of that observation's sop_mappings
   entry, for every label, known or not. *)
C10_SameProcedureText ==
    pc = "done" =>
        \A i \in 1..NumObs :
            /\ Cardinality(Heads) = NumObs
            /\ Recs[HeadPos(i)][3] = analysis.sop_mappings[i].sop

====
